---- MODULE Spec2Model ----
(***************************************************************************)
(* Flake analytics engine (src/analytics/flake_metrics.py)                 *)
(* and its alerting engine (src/automation/alerts.py).                     *)
(*                                                                         *)
(* A dataset (pandas DataFrame) is a sequence of rows `df` together with   *)
(* the set `cols` of the columns that structurally exist.  Every function  *)
(* of the module is one action that reads `df`/`cols` and stores what the  *)
(* call returns (or the exception it raises) in a result variable.         *)
(* Text values are sequences of one-character strings, so that str.strip,  *)
(* str.lower and "||".join are computed character by character.            *)
(***************************************************************************)
EXTENDS Integers, Sequences, FiniteSets, TLC

VARIABLES df, cols, pc, ids, stability_enriched, per_test, failure_groups, group_runs,
          insights, notifiers, calls, samples, root_cause_groups, now, jira, ensured

vars == <<df, cols, pc, ids, stability_enriched, per_test, failure_groups, group_runs,
          insights, notifiers, calls, samples, root_cause_groups, now, jira, ensured>>

\* the state of the alerting engine (src/automation/alerts.py): the insight
\* sequence handed to run, the registered notifiers, the send calls made
alert_vars == <<insights, notifiers, calls>>

\* no alerting engine is in use
NoAlerting == insights = <<>> /\ notifiers = <<>> /\ calls = <<>>

\* the weekly samples handed to the insight enrichment
enrich_vars == <<samples>>

\* no weekly samples are in use
NoSamples == samples = <<>>

\* the state of the ticket escalation (src/api/export.py): the root-cause
\* groups, the clock, the Jira side and what the last ensure_jira_tickets
\* call did
ticket_vars == <<root_cause_groups, now, jira, ensured>>

\* no ticket escalation is in use
NoTicketing ==
    /\ root_cause_groups = <<>>
    /\ now = 0
    /\ jira = [issued |-> 0, invocations |-> <<>>]
    /\ ensured = [status |-> "none", call |-> 0, sla_days |-> 0, overdue |-> <<>>,
                  tickets |-> <<>>]

(***************************************************************************)
(* Bounds of the model.                                                    *)
(***************************************************************************)
MaxSigRows == 2

(***************************************************************************)
(* Python values held in a cell: None, float NaN, a str, or an int.        *)
(***************************************************************************)
None == [kind |-> "none", s |-> <<>>, n |-> 0]
NaN == [kind |-> "nan", s |-> <<>>, n |-> 0]
StrVal(chars) == [kind |-> "str", s |-> chars, n |-> 0]
IntVal(i) == [kind |-> "int", s |-> <<>>, n |-> i]

\* a null cell, as pandas' count and groupby(dropna=True) see it
IsMissing(v) == v.kind \in {"none", "nan"}

DigitChars == <<"0", "1", "2", "3", "4", "5", "6", "7", "8", "9">>

RECURSIVE Digits(_)
Digits(i) == IF i < 10 THEN <<DigitChars[i + 1]>>
             ELSE Digits(i \div 10) \o <<DigitChars[(i % 10) + 1]>>

\* str(value) for the value kinds of the model
PyStr(v) == CASE v.kind = "str" -> v.s
              [] v.kind = "int" -> Digits(v.n)
              [] v.kind = "none" -> <<"N", "o", "n", "e">>
              [] v.kind = "nan" -> <<"n", "a", "n">>

IsSpace(c) == c \in {" ", "\t", "\n"}

RECURSIVE LStrip(_)
LStrip(s) == IF s # <<>> /\ IsSpace(Head(s)) THEN LStrip(Tail(s)) ELSE s

RECURSIVE RStrip(_)
RStrip(s) == IF s # <<>> /\ IsSpace(s[Len(s)]) THEN RStrip(SubSeq(s, 1, Len(s) - 1)) ELSE s

\* str.strip()
Strip(s) == RStrip(LStrip(s))

\* _normalize_component without the strip() of line 86
NormalizeComponentNoStrip(value) ==
    IF value.kind = "none" THEN <<>>
    ELSE IF value.kind = "nan" THEN <<>>
    ELSE PyStr(value)

\* _normalize_component: None and float NaN become "", the rest str(value).strip()
_normalize_component(value) ==
    IF value.kind = "none" THEN <<>>
    ELSE IF value.kind = "nan" THEN <<>>
    ELSE Strip(PyStr(value))

ROOT_CAUSE_COMPONENTS == <<"failure_reason", "stack_trace_hash", "error_code">>

Separator == <<"|", "|">>

RECURSIVE Join(_, _)
\* sep.join(parts)
Join(sep, parts) ==
    IF parts = <<>> THEN <<>>
    ELSE IF Len(parts) = 1 THEN parts[1]
    ELSE parts[1] \o sep \o Join(sep, Tail(parts))

\* hashlib.sha1(value.encode()).hexdigest(): the digest is taken to be
\* injective, so it is the tagged pre-image
Sha1Hex(text) == [sha1 |-> text]

\* the string line 108 builds for one row
Signature(row) ==
    Join(Separator, [i \in 1..Len(ROOT_CAUSE_COMPONENTS) |->
                        _normalize_component(row[ROOT_CAUSE_COMPONENTS[i]])])

MissingComponents(columns) ==
    {ROOT_CAUSE_COMPONENTS[i] : i \in 1..Len(ROOT_CAUSE_COMPONENTS)} \ columns

\* assign_root_cause_group_ids(frame): KeyError when a component column is
\* absent, else one digest per row, in row order
assign_root_cause_group_ids(frame, columns) ==
    IF MissingComponents(columns) # {}
    THEN [status |-> "KeyError", rows |-> <<>>]
    ELSE [status |-> "ok", rows |-> [i \in 1..Len(frame) |-> Sha1Hex(Signature(frame[i]))]]

NotCalled == [status |-> "none", rows |-> <<>>]

\* the same for a result whose column set is recorded
NotCalledFrame == [status |-> "none", rows |-> <<>>, columns |-> {}]

(***************************************************************************)
(* Rows.  A row has a field for every column the model knows; the field    *)
(* of a column that is not in `cols` is never read.                        *)
(***************************************************************************)
TestNames == <<"tA", "tB">>

TestNameSet == {TestNames[i] : i \in 1..Len(TestNames)}

Row(test, status, at, run, failed, reason, hash, code, platform, team) ==
    [test_name |-> test, status |-> status, executed_at |-> at, run_id |-> run,
     failed |-> failed, failure_reason |-> reason, stack_trace_hash |-> hash,
     error_code |-> code, platform |-> platform, team |-> team]

\* run_url and log_path are carried through untouched: they are columns of
\* the schema only
AllColumns == {"test_name", "status", "executed_at", "run_id", "failed",
               "failure_reason", "stack_trace_hash", "error_code", "platform", "team",
               "run_url", "log_path"}

(***************************************************************************)
(* Specification SpecSig: failed records with varied failure metadata are  *)
(* loaded and assign_root_cause_group_ids is called on them.               *)
(***************************************************************************)
SigReasons == {None, StrVal(<<"a">>), StrVal(<<" ", "a">>), StrVal(<<"|">>)}
SigHashes == {None, NaN, StrVal(<<"|">>), IntVal(7)}
SigCodes == {None, StrVal(<<"7">>)}

SigInit ==
    /\ df = <<>>
    /\ cols = AllColumns
    /\ pc = "load"
    /\ ids = NotCalled
    /\ stability_enriched = NotCalled
    /\ per_test = NotCalled
    /\ failure_groups = NotCalledFrame
    /\ group_runs = NotCalledFrame
    /\ NoAlerting
    /\ NoSamples
    /\ NoTicketing

SigAppendRow ==
    /\ pc = "load"
    /\ Len(df) < MaxSigRows
    /\ \E test \in TestNameSet, reason \in SigReasons, hash \in SigHashes, code \in SigCodes :
         df' = Append(df, Row(test, StrVal(<<"f">>), 0, None, TRUE, reason, hash, code,
                              StrVal(<<"l">>), StrVal(<<"q">>)))
    /\ UNCHANGED <<cols, pc, ids, stability_enriched, per_test, failure_groups, group_runs>>
    /\ UNCHANGED alert_vars
    /\ UNCHANGED enrich_vars
    /\ UNCHANGED ticket_vars

AssignRootCauseGroupIds ==
    /\ pc = "load"
    /\ ids' = assign_root_cause_group_ids(df, cols)
    /\ pc' = "returned"
    /\ UNCHANGED <<df, cols, stability_enriched, per_test, failure_groups, group_runs>>
    /\ UNCHANGED alert_vars
    /\ UNCHANGED enrich_vars
    /\ UNCHANGED ticket_vars

SigNext == SigAppendRow \/ AssignRootCauseGroupIds

SpecSig == SigInit /\ [][SigNext]_vars

(***************************************************************************)
(* The normalized triple as the specification words it: a missing value    *)
(* (None or NaN) is the empty string, any other value is its text without  *)
(* the surrounding whitespace.                                             *)
(***************************************************************************)
NormalizedText(v) == IF IsMissing(v) THEN <<>> ELSE Strip(PyStr(v))

NormalizedTriple(row) ==
    <<NormalizedText(row.failure_reason), NormalizedText(row.stack_trace_hash),
      NormalizedText(row.error_code)>>

\* C1: two failed records with equal normalized (failure_reason,
\* stack_trace_hash, error_code) get the same root_cause_group_id, whatever
\* their other fields and their row positions.
C1_SameTripleSameId ==
    (pc = "returned" /\ ids.status = "ok") =>
        \A i, j \in 1..Len(df) :
            NormalizedTriple(df[i]) = NormalizedTriple(df[j]) => ids.rows[i] = ids.rows[j]

\* C1 witness: two records of different tests whose raw failure_reason and
\* stack_trace_hash differ (one stack_trace_hash is None, the other NaN) but
\* whose normalized triples agree, holding the same id.
C1_Witness ==
    /\ pc = "returned"
    /\ ids.status = "ok"
    /\ \E i, j \in 1..Len(df) :
         /\ i < j
         /\ df[i].test_name # df[j].test_name
         /\ df[i].failure_reason # df[j].failure_reason
         /\ df[i].stack_trace_hash = None
         /\ df[j].stack_trace_hash = NaN
         /\ NormalizedTriple(df[i]) = NormalizedTriple(df[j])
         /\ ids.rows[i] = ids.rows[j]

\* C2: two failed records whose normalized triples differ in at least one
\* component get different root_cause_group_ids (the digest being injective),
\* also when a component contains the separator text.
C2_DifferentTripleDifferentId ==
    (pc = "returned" /\ ids.status = "ok") =>
        \A i, j \in 1..Len(df) :
            NormalizedTriple(df[i]) # NormalizedTriple(df[j]) => ids.rows[i] # ids.rows[j]

(***************************************************************************)
(* Floats.  A float is NaN or the exact ratio num/den (den > 0); two       *)
(* floats are compared as IEEE does, NaN being equal to nothing.           *)
(***************************************************************************)
NaNFloat == [nan |-> TRUE, num |-> 0, den |-> 1]
Ratio(num, den) == [nan |-> FALSE, num |-> num, den |-> den]
One == Ratio(1, 1)

FloatEq(a, b) == ~a.nan /\ ~b.nan /\ a.num * b.den = b.num * a.den
FloatLeq(a, b) == ~a.nan /\ ~b.nan /\ a.num * b.den <= b.num * a.den

(***************************************************************************)
(* Status normalisation (lines 155-156): str(status).lower() is looked up  *)
(* in the set of failing statuses.                                         *)
(***************************************************************************)
UpperChars == <<"A", "B", "C", "D", "E", "F", "G", "H", "I", "J", "K", "L", "M",
                "N", "O", "P", "Q", "R", "S", "T", "U", "V", "W", "X", "Y", "Z">>
LowerChars == <<"a", "b", "c", "d", "e", "f", "g", "h", "i", "j", "k", "l", "m",
                "n", "o", "p", "q", "r", "s", "t", "u", "v", "w", "x", "y", "z">>

LowerChar(c) ==
    IF \E k \in 1..Len(UpperChars) : UpperChars[k] = c
    THEN LowerChars[CHOOSE k \in 1..Len(UpperChars) : UpperChars[k] = c]
    ELSE c

\* str.lower()
Lower(text) == [k \in 1..Len(text) |-> LowerChar(text[k])]

FAILED_STATUSES == {<<"f", "a", "i", "l", "e", "d">>, <<"e", "r", "r", "o", "r">>,
                    <<"f", "l", "a", "k", "e">>, <<"f", "l", "a", "k", "y">>}

\* status.astype(str).str.lower().isin({"failed", "error", "flake", "flaky"})
IsFailedStatus(status) == Lower(PyStr(status)) \in FAILED_STATUSES

\* df.copy() with the derived "failed" column (lines 154-156, 307-310)
WithFailedColumn(frame) ==
    [i \in 1..Len(frame) |-> [frame[i] EXCEPT !.failed = IsFailedStatus(frame[i].status)]]

\* a frame as the caller holds it: its rows and its columns
Frame(rows, columns) == [rows |-> rows, columns |-> columns]

\* the caller's frame after a call that had worked on it in place
CallerFrameInPlace(own, working) == working

\* the caller's frame after a call that changed `working`: every function
\* works on a new object (df.copy() at line 154, df[df["failed"]].copy() at
\* lines 210 and 243, group.sort_values(...) at line 130), so the frame
\* passed in keeps its rows and columns
CallerFrame(own, working) == own

(***************************************************************************)
(* groupby("test_name"): the groups come in the sorted order of the keys;  *)
(* TestNames lists the test identifiers in that order.                     *)
(***************************************************************************)
TestsIn(rows) == {rows[i].test_name : i \in 1..Len(rows)}

SortedTests(rows) == SelectSeq(TestNames, LAMBDA t : t \in TestsIn(rows))

\* a groupby that takes every row into every group
GroupAllRows(rows, test) == rows

\* one group of groupby("test_name"): the rows of the test, in frame order
Group(rows, test) == SelectSeq(rows, LAMBDA r : r.test_name = test)

Permuted(rows) ==
    IF rows = <<>> THEN {<<>>}
    ELSE {[i \in 1..Len(rows) |-> rows[p[i]]] : p \in Permutations(1..Len(rows))}

\* sort_values("executed_at"): the default quicksort is not stable, so rows
\* with equal timestamps come out in any order
SortChoices(rows) ==
    {s \in Permuted(rows) :
        \A i \in 1..(Len(s) - 1) : s[i].executed_at <= s[i + 1].executed_at}

\* the ways the groups of a frame can come out of line 130, one per test
SortedGroupChoices(rows) ==
    {f \in [TestsIn(rows) -> UNION {SortChoices(Group(rows, t)) : t \in TestsIn(rows)}] :
        \A t \in TestsIn(rows) : f[t] \in SortChoices(Group(rows, t))}

(***************************************************************************)
(* compute_stability_windows                                               *)
(***************************************************************************)
STABILITY_WINDOWS_DAYS == [stability_7d |-> 7, stability_30d |-> 30]

\* a window that ends before the row it is computed for
WindowRowsBefore(group, i, window_days) ==
    {j \in 1..(i - 1) : group[j].executed_at > group[i].executed_at - window_days}

\* the rows rolling(window="<n>D") gives row i of a time-sorted group: the
\* rows at positions up to i whose timestamp is later than t_i - n days
WindowRows(group, i, window_days) ==
    {j \in 1..i : group[j].executed_at > group[i].executed_at - window_days}

\* 1.0 - sum/count of one window (line 137); 0/0 is NaN
RawStability(group, i, window_days) ==
    LET total_runs == Cardinality(WindowRows(group, i, window_days))
        failed_runs == Cardinality({j \in WindowRows(group, i, window_days) : group[j].failed})
    IN IF total_runs = 0 THEN NaNFloat ELSE Ratio(total_runs - failed_runs, total_runs)

RECURSIVE FilledStability(_, _, _)
\* fillna(method="ffill").fillna(1.0) (line 138)
FilledStability(group, i, window_days) ==
    IF ~RawStability(group, i, window_days).nan THEN RawStability(group, i, window_days)
    ELSE IF i = 1 THEN One
    ELSE FilledStability(group, i - 1, window_days)

\* _apply_windows on a group that line 130 has sorted (pandas before 3.0,
\* where the use_inf_as_na option and fillna(method=...) exist)
_apply_windows(group) ==
    [i \in 1..Len(group) |->
        [row |-> group[i],
         stability_7d |-> FilledStability(group, i, STABILITY_WINDOWS_DAYS.stability_7d),
         stability_30d |-> FilledStability(group, i, STABILITY_WINDOWS_DAYS.stability_30d)]]

RECURSIVE ConcatGroups(_, _)
ConcatGroups(tests, sorted) ==
    IF tests = <<>> THEN <<>>
    ELSE _apply_windows(sorted[Head(tests)]) \o ConcatGroups(Tail(tests), sorted)

\* compute_stability_windows(frame); `sorted` is how line 130 ordered each group
compute_stability_windows(frame, columns, sorted) ==
    IF {"executed_at", "test_name", "failed"} \ columns # {}
    THEN [status |-> "KeyError", rows |-> <<>>]
    ELSE [status |-> "ok", rows |-> ConcatGroups(SortedTests(frame), sorted)]

(***************************************************************************)
(* compute_per_test_flake_metrics                                          *)
(***************************************************************************)
\* index labels: reset_index() numbers the rows 0, 1, ...; set_index("test_name")
\* labels them with the test identifier
IntLabel(i) == [kind |-> "int", i |-> i, s |-> ""]
StrLabel(text) == [kind |-> "str", i |-> 0, s |-> text]

EnrichedGroup(enriched, test) == SelectSeq(enriched, LAMBDA e : e.row.test_name = test)

\* the "count" aggregation of line 162: the non-null cells of run_id when
\* the column exists, else those of failed (every row)
CountRuns(group, columns) ==
    IF "run_id" \in columns
    THEN Cardinality({i \in 1..Len(group) : ~IsMissing(group[i].row.run_id)})
    ELSE Len(group)

\* the "sum" aggregation of line 163
SumFailed(group) == Cardinality({i \in 1..Len(group) : group[i].row.failed})

\* line 167: failed_runs / total_runs.where(total_runs != 0, 1)
FlakeRate(failed_runs, total_runs) ==
    Ratio(failed_runs, IF total_runs # 0 THEN total_runs ELSE 1)

\* sort_values("executed_at").groupby("test_name").tail(1): for each test a
\* row with its latest timestamp, any of them when several share it
LatestChoices(enriched) ==
    {f \in [TestsIn([i \in 1..Len(enriched) |-> enriched[i].row]) ->
                {enriched[i] : i \in 1..Len(enriched)}] :
        \A t \in DOMAIN f :
            /\ f[t].row.test_name = t
            /\ \A i \in 1..Len(enriched) :
                 enriched[i].row.test_name = t =>
                     enriched[i].row.executed_at <= f[t].row.executed_at}

\* the latest rows lines 179-193 take when the column exists (they are not
\* computed otherwise)
LatestIfColumn(enriched, columns, column) ==
    IF column \in columns THEN LatestChoices(enriched) ELSE {<<>>}

\* totals[column] = series (line 177): the series is aligned on the index
\* labels of totals; a label the series does not have gives NaN
AlignedValue(series, label) ==
    IF \E e \in series : e.label = label
    THEN (CHOOSE e \in series : e.label = label).value
    ELSE NaNFloat

\* the totals frame of lines 159-177, rows in groupby order, before the
\* platform and team columns are merged in
BaseTotals(enriched, columns, latest) ==
    LET tests == SortedTests([i \in 1..Len(enriched) |-> enriched[i].row])
        series_7d == {[label |-> StrLabel(t), value |-> latest[t].stability_7d] : t \in DOMAIN latest}
        series_30d == {[label |-> StrLabel(t), value |-> latest[t].stability_30d] : t \in DOMAIN latest}
    IN [k \in 1..Len(tests) |->
          LET group == EnrichedGroup(enriched, tests[k])
              total_runs == CountRuns(group, columns)
              failed_runs == SumFailed(group)
          IN [label |-> IntLabel(k - 1),
              test_name |-> tests[k],
              total_runs |-> total_runs,
              failed_runs |-> failed_runs,
              flake_rate |-> FlakeRate(failed_runs, total_runs),
              stability_7d |-> AlignedValue(series_7d, IntLabel(k - 1)),
              stability_30d |-> AlignedValue(series_30d, IntLabel(k - 1)),
              platform |-> None,
              team |-> None]]

\* every row that carries the latest timestamp of its test, as a two-column
\* frame (what a filter on the maximum would keep, where tail(1) keeps one)
TiedLatestColumnRows(enriched, latest, column) ==
    LET tied == SelectSeq(enriched,
                    LAMBDA e : \A i \in 1..Len(enriched) :
                        enriched[i].row.test_name = e.row.test_name =>
                            enriched[i].row.executed_at <= e.row.executed_at)
    IN [k \in 1..Len(tied) |->
          [test_name |-> tied[k].row.test_name, value |-> tied[k].row[column]]]

\* .groupby("test_name").tail(1)[["test_name", column]] (lines 181-184,
\* 189-192): the two-column frame of the chosen latest rows, one per test
LatestColumnRows(enriched, latest, column) ==
    LET tests == SortedTests([i \in 1..Len(enriched) |-> enriched[i].row])
    IN [k \in 1..Len(tests) |->
          [test_name |-> tests[k], value |-> latest[tests[k]].row[column]]]

\* left.merge(right, on="test_name", how="left") (lines 185, 193): one row
\* per pair of a left row and a right row of the same test, a left row
\* without partner once with a missing value; left order, a fresh index
RECURSIVE MergeRows(_, _, _)
MergeRows(left, right, column) ==
    IF left = <<>> THEN <<>>
    ELSE LET l == Head(left)
             partners == SelectSeq(right, LAMBDA r : r.test_name = l.test_name)
             joined == IF partners = <<>>
                       THEN <<[l EXCEPT ![column] = NaN]>>
                       ELSE [j \in 1..Len(partners) |->
                                [l EXCEPT ![column] = partners[j].value]]
         IN joined \o MergeRows(Tail(left), right, column)

MergeLeft(left, right, column) ==
    LET merged == MergeRows(left, right, column)
    IN [k \in 1..Len(merged) |-> [merged[k] EXCEPT !.label = IntLabel(k - 1)]]

\* the totals frame of lines 159-193, rows in groupby order
TotalsRows(enriched, columns, latest, latest_platform, latest_team) ==
    LET totals == BaseTotals(enriched, columns, latest)
        with_platform ==
            IF "platform" \in columns
            THEN MergeLeft(totals, LatestColumnRows(enriched, latest_platform, "platform"),
                           "platform")
            ELSE totals
    IN IF "team" \in columns
       THEN MergeLeft(with_platform, LatestColumnRows(enriched, latest_team, "team"), "team")
       ELSE with_platform

\* the rows in any order (what is returned when the final sort is left out)
UnsortedChoices(rows) == Permuted(rows)

\* sort_values("flake_rate", ascending=False): equal rates in any order
SortByRateChoices(rows) ==
    {s \in Permuted(rows) :
        \A i \in 1..(Len(s) - 1) : FloatLeq(s[i + 1].flake_rate, s[i].flake_rate)}

PerTestKeyError == [enriched |-> NotCalled, result |-> [status |-> "KeyError", rows |-> <<>>]]

\* compute_per_test_flake_metrics(frame): the outcomes the call can have, each
\* with the stability_enriched frame of line 158 and the returned rows.  A
\* frame without rows leaves groupby.apply nothing to add the stability
\* columns to, and line 177 raises KeyError.
compute_per_test_flake_metrics(frame, columns) ==
    IF {"test_name", "status", "executed_at"} \ columns # {} THEN {PerTestKeyError}
    ELSE IF frame = <<>> THEN {PerTestKeyError}
    ELSE LET metrics_df == WithFailedColumn(frame)
             metrics_columns == columns \cup {"failed"}
         IN UNION {
              LET enriched == compute_stability_windows(metrics_df, metrics_columns, sorted)
              IN UNION {
                   {[enriched |-> enriched, result |-> [status |-> "ok", rows |-> out]] :
                        out \in SortByRateChoices(
                                    TotalsRows(enriched.rows, metrics_columns,
                                               latest[1], latest[2], latest[3]))} :
                   latest \in LatestChoices(enriched.rows)
                                  \X LatestIfColumn(enriched.rows, metrics_columns, "platform")
                                  \X LatestIfColumn(enriched.rows, metrics_columns, "team")} :
              sorted \in SortedGroupChoices(metrics_df)}

(***************************************************************************)
(* Specification SpecMetrics: run records are loaded under one of the      *)
(* accepted schemas, then compute_stability_windows or                     *)
(* compute_per_test_flake_metrics is called on them.                       *)
(***************************************************************************)
MaxRows == 2

BaseColumns == {"test_name", "status", "executed_at"}

MetricSchemas == {BaseColumns,
                  BaseColumns \cup {"run_id"},
                  BaseColumns \cup {"failed"},
                  BaseColumns \cup {"platform", "team"}}

Passed == StrVal(<<"p", "a", "s", "s", "e", "d">>)
FailedUpper == StrVal(<<"F", "A", "I", "L", "E", "D">>)
StatusValues == {Passed, FailedUpper}

\* execution times in days
TimeValues == {0, 1, 8, 31}

RunIdValues == {None, StrVal(<<"r">>)}

PlatformValues == {StrVal(<<"l">>)}

MetricsInit ==
    /\ df = <<>>
    /\ cols \in MetricSchemas
    /\ pc = "load"
    /\ ids = NotCalled
    /\ stability_enriched = NotCalled
    /\ per_test = NotCalled
    /\ failure_groups = NotCalledFrame
    /\ group_runs = NotCalledFrame
    /\ NoAlerting
    /\ NoSamples
    /\ NoTicketing

\* one more run record; the failed column, when the caller supplies it, is
\* derived from status as run_pipeline does (lines 307-310)
AppendRow ==
    /\ pc = "load"
    /\ Len(df) < MaxRows
    /\ \E test \in TestNameSet, status \in StatusValues, at \in TimeValues,
          run \in (IF "run_id" \in cols THEN RunIdValues ELSE {None}),
          platform \in (IF "platform" \in cols THEN PlatformValues ELSE {None}) :
         df' = Append(df, Row(test, status, at, run, IsFailedStatus(status), None, None, None,
                              platform, IF "team" \in cols THEN StrVal(<<"q">>) ELSE None))
    /\ UNCHANGED <<cols, pc, ids, stability_enriched, per_test, failure_groups, group_runs>>
    /\ UNCHANGED alert_vars
    /\ UNCHANGED enrich_vars
    /\ UNCHANGED ticket_vars

ComputeStabilityWindows ==
    /\ pc = "load"
    /\ \E sorted \in SortedGroupChoices(df) :
         LET result == compute_stability_windows(df, cols, sorted)
             group == IF result.status = "ok"
                      THEN Frame([i \in 1..Len(result.rows) |-> result.rows[i].row],
                                 cols \cup DOMAIN STABILITY_WINDOWS_DAYS)
                      ELSE Frame(df, cols)
             caller == CallerFrame(Frame(df, cols), group)
         IN /\ stability_enriched' = result
            /\ df' = caller.rows
            /\ cols' = caller.columns
    /\ pc' = "returned"
    /\ UNCHANGED <<ids, per_test, failure_groups, group_runs>>
    /\ UNCHANGED alert_vars
    /\ UNCHANGED enrich_vars
    /\ UNCHANGED ticket_vars

ComputePerTestFlakeMetrics ==
    /\ pc = "load"
    /\ \E outcome \in compute_per_test_flake_metrics(df, cols) :
         /\ stability_enriched' = outcome.enriched
         /\ per_test' = outcome.result
    /\ LET metrics_df == IF {"test_name", "status", "executed_at"} \subseteq cols
                         THEN Frame(WithFailedColumn(df), cols \cup {"failed"})
                         ELSE Frame(df, cols)
           caller == CallerFrame(Frame(df, cols), metrics_df)
       IN /\ df' = caller.rows
          /\ cols' = caller.columns
    /\ pc' = "returned"
    /\ UNCHANGED <<ids, failure_groups, group_runs>>
    /\ UNCHANGED alert_vars
    /\ UNCHANGED enrich_vars
    /\ UNCHANGED ticket_vars

MetricsNext == AppendRow \/ ComputeStabilityWindows \/ ComputePerTestFlakeMetrics

SpecMetrics == MetricsInit /\ [][MetricsNext]_vars

(***************************************************************************)
(* compute_failure_group_summaries and build_failure_group_runs            *)
(***************************************************************************)
KeyErrorFrame == [status |-> "KeyError", rows |-> <<>>, columns |-> {}]

SUMMARY_COLUMNS == {"platform", "team", "root_cause_group_id", "failure_count",
                    "affected_tests", "latest_failure_at"}

RUNS_COLUMNS == {"root_cause_group_id", "test_name", "run_id", "executed_at",
                 "run_url", "log_path", "failure_reason"}

\* pd.DataFrame(): a frame without rows and without columns
FrameWithoutColumns(columns) == [status |-> "ok", rows |-> <<>>, columns |-> {}]

\* pd.DataFrame(columns=[...]) (lines 212-221, 245-255): a frame without
\* rows that has the columns
EmptyFrame(columns) == [status |-> "ok", rows |-> <<>>, columns |-> columns]

\* df[df["failed"]].copy()
FailedRows(frame) == SelectSeq(frame, LAMBDA r : r.failed)

\* failure_df as the function leaves it: the failed rows, and the
\* root_cause_group_id column once line 223 or 257 was reached
FailureFrame(frame, columns) ==
    IF "failed" \notin columns THEN Frame(frame, columns)
    ELSE IF FailedRows(frame) = <<>> \/ MissingComponents(columns) # {}
    THEN Frame(FailedRows(frame), columns)
    ELSE Frame(FailedRows(frame), columns \cup {"root_cause_group_id"})

\* failure_df with its root_cause_group_id column (lines 223, 257)
WithGroupIds(failure_df, columns) ==
    [i \in 1..Len(failure_df) |->
        [row |-> failure_df[i],
         root_cause_group_id |-> assign_root_cause_group_ids(failure_df, columns).rows[i]]]

GroupKey(e) == <<e.row.platform, e.row.team, e.root_cause_group_id>>

\* groupby([...]) drops the rows whose key has a missing part (dropna=True)
KeyedRows(tagged) ==
    {i \in 1..Len(tagged) : ~IsMissing(tagged[i].row.platform) /\ ~IsMissing(tagged[i].row.team)}

SetMax(S) == CHOOSE x \in S : \A y \in S : y <= x

\* the aggregated groups with every record counted as an affected test
GroupCountsPerRecord(tagged) ==
    {LET members == {i \in KeyedRows(tagged) : GroupKey(tagged[i]) = key}
     IN [platform |-> key[1], team |-> key[2], root_cause_group_id |-> key[3],
         failure_count |-> Cardinality(members),
         affected_tests |-> Cardinality(members),
         latest_failure_at |-> SetMax({tagged[i].row.executed_at : i \in members})] :
     key \in {GroupKey(tagged[i]) : i \in KeyedRows(tagged)}}

\* the aggregated groups of lines 225-233, one record per key
GroupCounts(tagged) ==
    {LET members == {i \in KeyedRows(tagged) : GroupKey(tagged[i]) = key}
     IN [platform |-> key[1], team |-> key[2], root_cause_group_id |-> key[3],
         failure_count |-> Cardinality(members),
         affected_tests |-> Cardinality({tagged[i].row.test_name : i \in members}),
         latest_failure_at |-> SetMax({tagged[i].row.executed_at : i \in members})] :
     key \in {GroupKey(tagged[i]) : i \in KeyedRows(tagged)}}

\* the sequences that list every element of a set once
Listings(S) ==
    {s \in [1..Cardinality(S) -> S] : \A i, j \in 1..Cardinality(S) : s[i] = s[j] => i = j}

\* the groups in any order (what is returned when the final sort is left out)
UnsortedGroups(groups) == Listings(groups)

\* sort_values("failure_count", ascending=False): equal counts in any order
SortByCountChoices(groups) ==
    {s \in Listings(groups) :
        \A i \in 1..(Len(s) - 1) : s[i].failure_count >= s[i + 1].failure_count}

\* compute_failure_group_summaries(frame): the outcomes the call can have
compute_failure_group_summaries(frame, columns) ==
    IF {"failed", "platform", "team"} \ columns # {} THEN {KeyErrorFrame}
    ELSE IF FailedRows(frame) = <<>>
    THEN {EmptyFrame(SUMMARY_COLUMNS)}
    ELSE IF MissingComponents(columns) # {} THEN {KeyErrorFrame}
    ELSE IF {"test_name", "executed_at"} \ columns # {} THEN {KeyErrorFrame}
    ELSE {[status |-> "ok", rows |-> out, columns |-> SUMMARY_COLUMNS] :
            out \in SortByCountChoices(GroupCounts(WithGroupIds(FailedRows(frame), columns)))}

\* the failed rows in any order (the order of the input, or any other)
UnsortedRuns(tagged) == Permuted(tagged)

\* sort_values("executed_at", ascending=False): equal timestamps in any order
SortNewestFirstChoices(tagged) ==
    {s \in Permuted(tagged) :
        \A i \in 1..(Len(s) - 1) : s[i].row.executed_at >= s[i + 1].row.executed_at}

\* build_failure_group_runs(frame): the outcomes the call can have
build_failure_group_runs(frame, columns) ==
    IF "failed" \notin columns THEN {KeyErrorFrame}
    ELSE IF FailedRows(frame) = <<>>
    THEN {EmptyFrame(RUNS_COLUMNS)}
    ELSE IF MissingComponents(columns) # {} THEN {KeyErrorFrame}
    ELSE IF "executed_at" \notin columns THEN {KeyErrorFrame}
    ELSE {[status |-> "ok", rows |-> out,
           columns |-> RUNS_COLUMNS \cap (columns \cup {"root_cause_group_id"})] :
            out \in SortNewestFirstChoices(WithGroupIds(FailedRows(frame), columns))}

(***************************************************************************)
(* Specification SpecGroups: run records carrying the failed flag are      *)
(* loaded under a schema that may lack columns, then one of the three      *)
(* failure-grouping functions is called on them.                           *)
(***************************************************************************)
MaxGroupRows == 3

\* the columns ROOT_CAUSE_COMPONENTS names
ComponentColumns == {"failure_reason", "stack_trace_hash", "error_code"}

GroupSchemas == {AllColumns,
                 AllColumns \ {"run_id", "run_url", "log_path"},
                 AllColumns \ {"failure_reason"},
                 AllColumns \ {"stack_trace_hash"},
                 AllColumns \ {"error_code"}}

GroupTimes == {0, 1}

GroupPlatforms == {None, StrVal(<<"l">>)}

GroupReasons == {None, StrVal(<<"a">>)}

\* the platform and failure reason of a failed record: one of them may be
\* missing under a schema with all three metadata columns
GroupMetadata(columns) ==
    IF ComponentColumns \subseteq columns
    THEN {m \in GroupPlatforms \X GroupReasons : m[1] # None \/ m[2] # None}
    ELSE {<<StrVal(<<"l">>), None>>}

GroupsInit ==
    /\ df = <<>>
    /\ cols \in GroupSchemas
    /\ pc = "load"
    /\ ids = NotCalled
    /\ stability_enriched = NotCalled
    /\ per_test = NotCalled
    /\ failure_groups = NotCalledFrame
    /\ group_runs = NotCalledFrame
    /\ NoAlerting
    /\ NoSamples
    /\ NoTicketing

\* one more failed record
AppendFailedRow ==
    /\ pc = "load"
    /\ Len(df) < MaxGroupRows
    /\ \E test \in TestNameSet, at \in GroupTimes, metadata \in GroupMetadata(cols) :
         df' = Append(df, Row(test, FailedUpper, at, None, TRUE, metadata[2], None, None,
                              metadata[1], StrVal(<<"q">>)))
    /\ UNCHANGED <<cols, pc, ids, stability_enriched, per_test, failure_groups, group_runs>>
    /\ UNCHANGED alert_vars
    /\ UNCHANGED enrich_vars
    /\ UNCHANGED ticket_vars

\* one more passed record; it has no failure metadata
AppendPassedRow ==
    /\ pc = "load"
    /\ Len(df) < MaxGroupRows
    /\ \E test \in {"tA"} :
         df' = Append(df, Row(test, Passed, 0, None, FALSE, None, None, None,
                              StrVal(<<"l">>), StrVal(<<"q">>)))
    /\ UNCHANGED <<cols, pc, ids, stability_enriched, per_test, failure_groups, group_runs>>
    /\ UNCHANGED alert_vars
    /\ UNCHANGED enrich_vars
    /\ UNCHANGED ticket_vars

\* assign_root_cause_group_ids(failure_df) as the test calls it (lines 116-117)
AssignIdsOfFailures ==
    /\ pc = "load"
    /\ ids' = assign_root_cause_group_ids(FailedRows(df), cols)
    /\ pc' = "returned"
    /\ UNCHANGED <<df, cols, stability_enriched, per_test, failure_groups, group_runs>>
    /\ UNCHANGED alert_vars
    /\ UNCHANGED enrich_vars
    /\ UNCHANGED ticket_vars

ComputeFailureGroupSummaries ==
    /\ pc = "load"
    /\ \E outcome \in compute_failure_group_summaries(df, cols) : failure_groups' = outcome
    /\ LET failure_df == IF {"failed", "platform", "team"} \subseteq cols
                         THEN FailureFrame(df, cols)
                         ELSE Frame(df, cols)
           caller == CallerFrame(Frame(df, cols), failure_df)
       IN /\ df' = caller.rows
          /\ cols' = caller.columns
    /\ pc' = "returned"
    /\ UNCHANGED <<ids, stability_enriched, per_test, group_runs>>
    /\ UNCHANGED alert_vars
    /\ UNCHANGED enrich_vars
    /\ UNCHANGED ticket_vars

BuildFailureGroupRuns ==
    /\ pc = "load"
    /\ \E outcome \in build_failure_group_runs(df, cols) : group_runs' = outcome
    /\ LET caller == CallerFrame(Frame(df, cols), FailureFrame(df, cols))
       IN /\ df' = caller.rows
          /\ cols' = caller.columns
    /\ pc' = "returned"
    /\ UNCHANGED <<ids, stability_enriched, per_test, failure_groups>>
    /\ UNCHANGED alert_vars
    /\ UNCHANGED enrich_vars
    /\ UNCHANGED ticket_vars

GroupsNext ==
    \/ AppendFailedRow
    \/ AppendPassedRow
    \/ AssignIdsOfFailures
    \/ ComputeFailureGroupSummaries
    \/ BuildFailureGroupRuns

SpecGroups == GroupsInit /\ [][GroupsNext]_vars

(***************************************************************************)
(* Specification SpecAnalytics: a dataset of either kind is loaded and any *)
(* function of the analytics core is called on it.                         *)
(***************************************************************************)
AnalyticsInit == MetricsInit \/ GroupsInit

AnalyticsNext ==
    \/ cols \in MetricSchemas /\ MetricsNext
    \/ cols \in GroupSchemas /\ GroupsNext

SpecAnalytics == AnalyticsInit /\ [][AnalyticsNext]_vars

(***************************************************************************)
(* AlertingEngine (src/automation/alerts.py).  Rates, deltas and scores    *)
(* are held in hundredths (5 is 0.05, 300 is 3.00); a delta or score that  *)
(* is None is the null number.                                             *)
(***************************************************************************)
NullNum == [null |-> TRUE, v |-> 0]
Num(v) == [null |-> FALSE, v |-> v]

\* ThresholdConfig() with its default values
ThresholdConfig == [max_flake_rate |-> 5, max_wow_delta |-> 50, max_z_score |-> 300]

\* the anomaly flag of an insight: a score exists and its absolute value is
\* at least 2.5
IsAnomalous(z_score) ==
    ~z_score.null /\ (IF z_score.v >= 0 THEN z_score.v ELSE 0 - z_score.v) >= 250

\* one WeeklyFlakeInsight
WeeklyFlakeInsight(week_start, flake_rate, wow_delta, z_score) ==
    [week_start |-> week_start, flake_rate |-> flake_rate, wow_delta |-> wow_delta,
     z_score |-> z_score, is_anomalous |-> IsAnomalous(z_score)]

\* latest_anomalies(insights): the flagged insights, newest week first, at
\* most five of them
latest_anomalies(items) ==
    LET limit == 5
        flagged == SelectSeq(items, LAMBDA item : item.is_anomalous)
        newest_first ==
            CHOOSE s \in Permuted(flagged) :
                \A i \in 1..(Len(s) - 1) : s[i].week_start >= s[i + 1].week_start
    IN SubSeq(newest_first, 1, IF Len(newest_first) < limit THEN Len(newest_first) ELSE limit)

\* the rules with a threshold that has to be exceeded, not only reached
RulesStrict(latest, threshold) ==
    <<[name |-> "High flake rate",
       triggers |-> latest.flake_rate.v > threshold.max_flake_rate,
       line |-> [text |-> "flake rate", week_start |-> latest.week_start,
                 value |-> latest.flake_rate, threshold |-> threshold.max_flake_rate]],
      [name |-> "Week-over-week spike",
       triggers |-> ~latest.wow_delta.null /\ latest.wow_delta.v > threshold.max_wow_delta,
       line |-> [text |-> "week-over-week delta", week_start |-> 0,
                 value |-> latest.wow_delta, threshold |-> threshold.max_wow_delta]],
      [name |-> "Anomalous spike",
       triggers |-> ~latest.z_score.null /\ latest.z_score.v > threshold.max_z_score,
       line |-> [text |-> "Z-score", week_start |-> 0,
                 value |-> latest.z_score, threshold |-> threshold.max_z_score]]>>

\* the rules of lines 80-99 in their fixed order: the name of each, whether
\* it triggers for the latest insight, and the line it adds to the body
Rules(latest, threshold) ==
    <<[name |-> "High flake rate",
       triggers |-> latest.flake_rate.v >= threshold.max_flake_rate,
       line |-> [text |-> "flake rate", week_start |-> latest.week_start,
                 value |-> latest.flake_rate, threshold |-> threshold.max_flake_rate]],
      [name |-> "Week-over-week spike",
       triggers |-> ~latest.wow_delta.null /\ latest.wow_delta.v >= threshold.max_wow_delta,
       line |-> [text |-> "week-over-week delta", week_start |-> 0,
                 value |-> latest.wow_delta, threshold |-> threshold.max_wow_delta]],
      [name |-> "Anomalous spike",
       triggers |-> ~latest.z_score.null /\ latest.z_score.v >= threshold.max_z_score,
       line |-> [text |-> "Z-score", week_start |-> 0,
                 value |-> latest.z_score, threshold |-> threshold.max_z_score]]>>

\* subject_bits and the rule lines of body_lines after line 99
TriggeredRules(latest, threshold) ==
    SelectSeq(Rules(latest, threshold), LAMBDA rule : rule.triggers)

\* the lines "Recent anomalies:\n" + "\n".join(formatted_rows) adds to the
\* body (lines 101-110): a heading and one line per anomaly, none without
\* anomalies
AnomalyLines(anomalies) ==
    IF anomalies = <<>> THEN <<>>
    ELSE <<[text |-> "Recent anomalies:", week_start |-> 0, value |-> NullNum, threshold |-> 0]>>
         \o [k \in 1..Len(anomalies) |->
               [text |-> "- ", week_start |-> anomalies[k].week_start,
                value |-> anomalies[k].flake_rate, threshold |-> anomalies[k].z_score.v]]

\* separator.join(parts) over a list of strings, each kept as one token
RECURSIVE JoinTokens(_, _)
JoinTokens(separator, parts) ==
    IF parts = <<>> THEN <<>>
    ELSE IF Len(parts) = 1 THEN <<parts[1]>>
    ELSE <<parts[1], separator>> \o JoinTokens(separator, Tail(parts))

\* a notification goes out whenever the body has a line
ShouldNotifyOnBody(subject_bits, body_lines) == body_lines # <<>>

\* if subject_bits: (line 112)
ShouldNotify(subject_bits, body_lines) == subject_bits # <<>>

\* _notify(subject, body) from the k-th notifier on: send is called on the
\* notifiers in order; a send that raises ends the loop and the run
RECURSIVE _notify(_, _, _, _)
_notify(registered, k, subject, body) ==
    IF k > Len(registered) THEN [status |-> "returned", calls |-> <<>>]
    ELSE LET call == [notifier |-> k, subject |-> subject, body |-> body]
         IN IF registered[k].raises
            THEN [status |-> "raised", calls |-> <<call>>]
            ELSE LET rest == _notify(registered, k + 1, subject, body)
                 IN [status |-> rest.status, calls |-> <<call>> \o rest.calls]

\* the first entry of the sequence
EarliestInsight(items) == items[1]

\* latest = insights[-1] (line 76)
LatestInsight(items) == items[Len(items)]

\* AlertingEngine.run(items): how the call ends and the sends it makes
AlertingEngineRun(registered, threshold, items) ==
    IF items = <<>> THEN [status |-> "returned", calls |-> <<>>]
    ELSE LET latest == LatestInsight(items)
             triggered == TriggeredRules(latest, threshold)
             subject_bits == [k \in 1..Len(triggered) |-> triggered[k].name]
             body_lines == [k \in 1..Len(triggered) |-> triggered[k].line]
                               \o AnomalyLines(latest_anomalies(items))
         IN IF ShouldNotify(subject_bits, body_lines)
            THEN _notify(registered, 1, JoinTokens(" | ", subject_bits), body_lines)
            ELSE [status |-> "returned", calls |-> <<>>]

(***************************************************************************)
(* Specification SpecAlerts: notifiers are registered, weekly insights     *)
(* become available week by week, then run is called once.                 *)
(***************************************************************************)
MaxInsights == 2

MaxNotifiers == 2

FlakeRates == {Num(4), Num(5)}

WowDeltas == {NullNum, Num(49), Num(50)}

ZScores == {NullNum, Num(299), Num(300)}

AlertsInit ==
    /\ df = <<>>
    /\ cols = {}
    /\ pc = "load"
    /\ ids = NotCalled
    /\ stability_enriched = NotCalled
    /\ per_test = NotCalled
    /\ failure_groups = NotCalledFrame
    /\ group_runs = NotCalledFrame
    /\ NoAlerting
    /\ NoSamples
    /\ NoTicketing

analytics_vars == <<df, cols, ids, stability_enriched, per_test, failure_groups, group_runs>>

\* one more notifier in AlertingEngine.notifiers; its send works or raises
RegisterNotifier ==
    /\ pc = "load"
    /\ Len(notifiers) < MaxNotifiers
    /\ \E raises \in BOOLEAN : notifiers' = Append(notifiers, [raises |-> raises])
    /\ UNCHANGED <<pc, insights, calls>>
    /\ UNCHANGED analytics_vars
    /\ UNCHANGED enrich_vars
    /\ UNCHANGED ticket_vars

\* the insight of the next week
AppendInsight ==
    /\ pc = "load"
    /\ Len(insights) < MaxInsights
    /\ \E flake_rate \in FlakeRates, wow_delta \in WowDeltas, z_score \in ZScores :
         insights' = Append(insights,
                            WeeklyFlakeInsight(Len(insights) + 1, flake_rate, wow_delta, z_score))
    /\ UNCHANGED <<pc, notifiers, calls>>
    /\ UNCHANGED analytics_vars
    /\ UNCHANGED enrich_vars
    /\ UNCHANGED ticket_vars

Run ==
    /\ pc = "load"
    /\ LET outcome == AlertingEngineRun(notifiers, ThresholdConfig, insights)
       IN /\ calls' = outcome.calls
          /\ pc' = outcome.status
    /\ UNCHANGED <<insights, notifiers>>
    /\ UNCHANGED analytics_vars
    /\ UNCHANGED enrich_vars
    /\ UNCHANGED ticket_vars

AlertsNext == RegisterNotifier \/ AppendInsight \/ Run

SpecAlerts == AlertsInit /\ [][AlertsNext]_vars

(***************************************************************************)
(* Ticket escalation (src/api/export.py).  Time is counted in days.  A     *)
(* group is kept by its position in the list of groups; the Jira server    *)
(* numbers the tickets it creates 1, 2, ..., a ticket that a group had     *)
(* before has key 0.                                                       *)
(***************************************************************************)
NoTicket == [present |-> FALSE, key |-> 0]

JiraTicketMetadata(key) == [present |-> TRUE, key |-> key]

\* one RootCauseGroup; resolved stands for resolved_at not being None
RootCauseGroup(created_at, resolved, jira_ticket) ==
    [created_at |-> created_at, resolved |-> resolved, jira_ticket |-> jira_ticket]

is_unresolved(group) == ~group.resolved

\* the unresolved groups older than the deadline, the deadline itself excluded
GroupsPastSla(listed, sla_days, at) ==
    SelectSeq([k \in 1..Len(listed) |-> k],
              LAMBDA k : is_unresolved(listed[k]) /\ at - listed[k].created_at > sla_days)

\* groups_exceeding_sla(groups, sla_days, now): the overdue groups, by their
\* positions, in input order
groups_exceeding_sla(listed, sla_days, at) ==
    SelectSeq([k \in 1..Len(listed) |-> k],
              LAMBDA k : is_unresolved(listed[k]) /\ at - listed[k].created_at >= sla_days)

\* every group is taken to be without ticket
NeverHasTicket(group) == FALSE

\* group.jira_ticket is not None (line 119)
HasTicket(group) == group.jira_ticket.present

\* the loop of ensure_jira_tickets over the overdue groups (lines 118-133);
\* `failing` is the number of the create_ticket invocation of this call that
\* raises (0: none does).  The result has how the call ends, the groups, the
\* Jira side and the tickets collected.
RECURSIVE EnsureLoop(_, _, _, _, _)
EnsureLoop(overdue, listed, client, tickets, failing) ==
    IF overdue = <<>>
    THEN [status |-> "returned", groups |-> listed, jira |-> client, tickets |-> tickets]
    ELSE LET k == Head(overdue)
             group == listed[k]
         IN IF HasTicket(group)
            THEN EnsureLoop(Tail(overdue), listed, client,
                            Append(tickets, group.jira_ticket), failing)
            ELSE IF failing = 1
            THEN [status |-> "raised", groups |-> listed,
                  jira |-> [client EXCEPT !.invocations =
                                Append(@, [group |-> k, raised |-> TRUE])],
                  tickets |-> tickets]
            ELSE LET ticket == JiraTicketMetadata(client.issued + 1)
                 IN EnsureLoop(Tail(overdue),
                               [listed EXCEPT ![k].jira_ticket = ticket],
                               [issued |-> client.issued + 1,
                                invocations |-> Append(client.invocations,
                                                       [group |-> k, raised |-> FALSE])],
                               Append(tickets, ticket),
                               IF failing = 0 THEN 0 ELSE failing - 1)

\* ensure_jira_tickets(groups, sla_days, jira_client, now)
ensure_jira_tickets(listed, sla_days, client, at, failing) ==
    EnsureLoop(groups_exceeding_sla(listed, sla_days, at), listed, client, <<>>, failing)

(***************************************************************************)
(* Specification SpecTickets: root-cause groups exist, days pass, and      *)
(* ensure_jira_tickets is called on the groups again and again.            *)
(***************************************************************************)
MaxTicketGroups == 2

MaxNow == 3

MaxEnsureCalls == 2

CreatedAtValues == {0, 1}

SlaDayChoices == {1, 2}

TicketsInit ==
    /\ df = <<>>
    /\ cols = {}
    /\ pc = "load"
    /\ ids = NotCalled
    /\ stability_enriched = NotCalled
    /\ per_test = NotCalled
    /\ failure_groups = NotCalledFrame
    /\ group_runs = NotCalledFrame
    /\ NoAlerting
    /\ NoSamples
    /\ NoTicketing

\* one more group, resolved or not, with or without an earlier ticket
AddGroup ==
    /\ pc = "load"
    /\ Len(root_cause_groups) < MaxTicketGroups
    /\ \E created_at \in CreatedAtValues, resolved \in BOOLEAN,
          jira_ticket \in {NoTicket, JiraTicketMetadata(0)} :
         root_cause_groups' =
             Append(root_cause_groups, RootCauseGroup(created_at, resolved, jira_ticket))
    /\ UNCHANGED <<pc, now, jira, ensured>>
    /\ UNCHANGED analytics_vars
    /\ UNCHANGED alert_vars
    /\ UNCHANGED enrich_vars

\* a day passes
Tick ==
    /\ now < MaxNow
    /\ now' = now + 1
    /\ UNCHANGED <<pc, root_cause_groups, jira, ensured>>
    /\ UNCHANGED analytics_vars
    /\ UNCHANGED alert_vars
    /\ UNCHANGED enrich_vars

EnsureJiraTickets ==
    /\ ensured.call < MaxEnsureCalls
    /\ \E sla_days \in SlaDayChoices, failing \in 0..Len(root_cause_groups) :
         LET outcome == ensure_jira_tickets(root_cause_groups, sla_days, jira, now, failing)
         IN /\ root_cause_groups' = outcome.groups
            /\ jira' = outcome.jira
            /\ ensured' = [status |-> outcome.status,
                           call |-> ensured.call + 1,
                           sla_days |-> sla_days,
                           overdue |-> groups_exceeding_sla(root_cause_groups, sla_days, now),
                           tickets |-> outcome.tickets]
    /\ pc' = "ensured"
    /\ UNCHANGED now
    /\ UNCHANGED analytics_vars
    /\ UNCHANGED alert_vars
    /\ UNCHANGED enrich_vars

TicketsNext == AddGroup \/ Tick \/ EnsureJiraTickets

SpecTickets == TicketsInit /\ [][TicketsNext]_vars

(***************************************************************************)
(* Weekly insight enrichment (spec.md, section 4.5).  A sample has its     *)
(* week, its runs and its flake failures; rates and deltas are in          *)
(* hundredths as in the alerting engine, a Z-score is cut to hundredths.   *)
(***************************************************************************)
WeeklyFlakeSample(week_start, test_runs, flake_failures) ==
    [week_start |-> week_start, test_runs |-> test_runs, flake_failures |-> flake_failures]

\* flake_rate = flake_failures / test_runs, 0 when test_runs is 0
SampleRate(sample) ==
    IF sample.test_runs = 0 THEN 0
    ELSE (100 * sample.flake_failures) \div sample.test_runs

\* a delta of plus infinity: a number above every finite one
PosInf == [null |-> FALSE, v |-> 1000000]

\* the samples as they were given
InputOrder(given) == {given}

\* the samples sorted chronologically by week_start; samples of one week
\* come in any order
ChronologicalChoices(given) ==
    {s \in Permuted(given) :
        \A i \in 1..(Len(s) - 1) : s[i].week_start <= s[i + 1].week_start}

\* the week-over-week delta (rate - previous) / previous; from 0 to a
\* positive rate it is plus infinity, from 0 to 0 it is 0
WowDelta(previous, rate) ==
    IF previous = 0
    THEN (IF rate > 0 THEN PosInf ELSE Num(0))
    ELSE Num(((rate - previous) * 100) \div previous)

RECURSIVE SumOf(_)
SumOf(values) == IF values = <<>> THEN 0 ELSE Head(values) + SumOf(Tail(values))

\* the greatest k in low..high with k * k * divisor <= square
RECURSIVE FloorRoot(_, _, _, _)
FloorRoot(square, divisor, low, high) ==
    IF low = high THEN low
    ELSE LET middle == (low + high + 1) \div 2
         IN IF middle * middle <= square \div divisor
            THEN FloorRoot(square, divisor, middle, high)
            ELSE FloorRoot(square, divisor, low, middle - 1)

\* the Z-score with the week itself counted into the history
ZScoreInclusive(history, rate) ==
    LET all == Append(history, rate)
        n == Len(all)
        total == SumOf(all)
        squares == SumOf([i \in 1..n |-> all[i] * all[i]])
        spread == n * squares - total * total
        distance == n * rate - total
        size == IF distance >= 0 THEN distance ELSE 0 - distance
        cut == FloorRoot(10000 * size * size, spread, 0, 100 * size)
    IN IF n < 2 \/ spread = 0 THEN NullNum
       ELSE Num(IF distance >= 0 THEN cut ELSE 0 - cut)

\* z = (rate - mean(history)) / stdev(history) over the rates of the weeks
\* before, with the population standard deviation; null with fewer than two
\* of them or without variance.  With n rates of sum S and sum of squares Q,
\* z = (n * rate - S) / sqrt(n * Q - S * S).
ZScore(history, rate) ==
    LET n == Len(history)
        total == SumOf(history)
        squares == SumOf([i \in 1..n |-> history[i] * history[i]])
        spread == n * squares - total * total
        distance == n * rate - total
        size == IF distance >= 0 THEN distance ELSE 0 - distance
        cut == FloorRoot(10000 * size * size, spread, 0, 100 * size)
    IN IF n < 2 \/ spread = 0 THEN NullNum
       ELSE Num(IF distance >= 0 THEN cut ELSE 0 - cut)

\* the insights of samples that are in chronological order: state (the
\* previous rate, the rates so far) flows forward only
EnrichInOrder(ordered) ==
    LET rates == [i \in 1..Len(ordered) |-> SampleRate(ordered[i])]
    IN [i \in 1..Len(ordered) |->
          WeeklyFlakeInsight(ordered[i].week_start,
                             Num(rates[i]),
                             IF i = 1 THEN NullNum ELSE WowDelta(rates[i - 1], rates[i]),
                             ZScore(SubSeq(rates, 1, i - 1), rates[i]))]

\* the enrichment of an unordered collection of samples: the results it can
\* have
EnrichWeeklySamples(given) ==
    {EnrichInOrder(ordered) : ordered \in ChronologicalChoices(given)}

(***************************************************************************)
(* Specification SpecInsights: weekly samples are collected in any order,  *)
(* then enriched.                                                          *)
(***************************************************************************)
MaxSamples == 3

SampleWeeks == {1, 2, 3}

SampleCounts == {<<0, 0>>, <<10, 1>>, <<10, 2>>}

InsightsInit ==
    /\ df = <<>>
    /\ cols = {}
    /\ pc = "load"
    /\ ids = NotCalled
    /\ stability_enriched = NotCalled
    /\ per_test = NotCalled
    /\ failure_groups = NotCalledFrame
    /\ group_runs = NotCalledFrame
    /\ NoAlerting
    /\ NoSamples
    /\ NoTicketing

AppendSample ==
    /\ pc = "load"
    /\ Len(samples) < MaxSamples
    /\ \E week_start \in SampleWeeks, counts \in SampleCounts :
         samples' = Append(samples, WeeklyFlakeSample(week_start, counts[1], counts[2]))
    /\ UNCHANGED pc
    /\ UNCHANGED analytics_vars
    /\ UNCHANGED alert_vars
    /\ UNCHANGED ticket_vars

Enrich ==
    /\ pc = "load"
    /\ insights' \in EnrichWeeklySamples(samples)
    /\ pc' = "returned"
    /\ UNCHANGED <<samples, notifiers, calls>>
    /\ UNCHANGED analytics_vars
    /\ UNCHANGED ticket_vars

InsightsNext == AppendSample \/ Enrich

SpecInsights == InsightsInit /\ [][InsightsNext]_vars

(***************************************************************************)
(* Properties of the failure-grouping functions                            *)
(***************************************************************************)
\* C3: with one of failure_reason, stack_trace_hash, error_code structurally
\* absent, none of the three failure-grouping functions returns a result (each
\* raises the missing-field error); with every column present, a missing
\* value in a row never makes them raise.
C3_AbsentColumnAlwaysRaises ==
    pc = "returned" =>
        /\ (ComponentColumns \ cols # {}) =>
              /\ ids.status # "ok"
              /\ failure_groups.status # "ok"
              /\ group_runs.status # "ok"
        /\ (cols = AllColumns) =>
              /\ ids.status # "KeyError"
              /\ failure_groups.status # "KeyError"
              /\ group_runs.status # "KeyError"

(***************************************************************************)
(* Properties of the stability windows and the per-test metrics            *)
(***************************************************************************)
\* the runs of one test, in dataset order
OwnRuns(rows, test) == SelectSeq(rows, LAMBDA r : r.test_name = test)

\* a status that, compared case-insensitively, is a failing one
CountsAsFailed(status) == Lower(PyStr(status)) \in FAILED_STATUSES

\* the runs of the test whose timestamp lies in (t - window_days, t]
RunsInWindow(rows, test, t, window_days) ==
    {i \in 1..Len(rows) :
        /\ rows[i].test_name = test
        /\ rows[i].executed_at > t - window_days
        /\ rows[i].executed_at <= t}

FailedIn(rows, S) == {i \in S : CountsAsFailed(rows[i].status)}

\* 1 - failed/total over the runs of the test in (t - window_days, t]
WindowStability(rows, test, t, window_days) ==
    LET S == RunsInWindow(rows, test, t, window_days)
    IN Ratio(Cardinality(S) - Cardinality(FailedIn(rows, S)), Cardinality(S))

LatestTime(rows, test) ==
    SetMax({rows[i].executed_at : i \in {j \in 1..Len(rows) : rows[j].test_name = test}})

\* C4: the stability compute_stability_windows gives a run of test T at time
\* t is, for the 7-day and the 30-day window W, 1 - failed/total over exactly
\* the runs of T with timestamp in (t - W, t].
C4_StabilityOverHalfOpenWindow ==
    (pc = "returned" /\ stability_enriched.status = "ok") =>
        \A k \in 1..Len(stability_enriched.rows) :
            LET e == stability_enriched.rows[k]
            IN /\ FloatEq(e.stability_7d,
                          WindowStability(df, e.row.test_name, e.row.executed_at, 7))
               /\ FloatEq(e.stability_30d,
                          WindowStability(df, e.row.test_name, e.row.executed_at, 30))

\* C5: runs of one test that share a timestamp get equal stability values.
C5_EqualTimestampsEqualStability ==
    (pc = "returned" /\ stability_enriched.status = "ok") =>
        \A k, m \in 1..Len(stability_enriched.rows) :
            LET a == stability_enriched.rows[k]
                b == stability_enriched.rows[m]
            IN (a.row.test_name = b.row.test_name /\ a.row.executed_at = b.row.executed_at)
                   => /\ FloatEq(a.stability_7d, b.stability_7d)
                      /\ FloatEq(a.stability_30d, b.stability_30d)

MetricValues(r) ==
    <<r.total_runs, r.failed_runs, r.flake_rate, r.stability_7d, r.stability_30d>>

\* C6: what is reported for a test depends on that test's runs alone: its
\* per-test row carries the values the call gives on the dataset reduced to
\* the test's own runs, and so do its rows of the stability frame.
C6_PerTestIsolation ==
    /\ (pc = "returned" /\ per_test.status = "ok") =>
          \A k \in 1..Len(per_test.rows) :
              LET own == OwnRuns(df, per_test.rows[k].test_name)
                  own_columns == cols \cup {"failed"}
              IN \E sorted \in SortedGroupChoices(own) :
                   LET enriched == compute_stability_windows(own, own_columns, sorted).rows
                   IN \E latest \in LatestChoices(enriched),
                         latest_platform \in LatestIfColumn(enriched, own_columns, "platform"),
                         latest_team \in LatestIfColumn(enriched, own_columns, "team") :
                        LET alone == TotalsRows(enriched, own_columns, latest,
                                                latest_platform, latest_team)
                        IN /\ Len(alone) = 1
                           /\ MetricValues(alone[1]) = MetricValues(per_test.rows[k])
    /\ (pc = "returned" /\ stability_enriched.status = "ok") =>
          \A t \in TestsIn(df) :
              \E sorted \in SortedGroupChoices(OwnRuns(df, t)) :
                  compute_stability_windows(OwnRuns(df, t), cols \cup {"failed"}, sorted).rows
                      = SelectSeq(stability_enriched.rows, LAMBDA e : e.row.test_name = t)

\* C6 witness: a passing test and a failing test ran within the same week;
\* the passing one is reported with no failure and stability 1, the failing
\* one with flake rate 1.
C6_Witness ==
    /\ pc = "returned"
    /\ per_test.status = "ok"
    /\ Len(per_test.rows) = 2
    /\ \E k, m \in 1..2 :
         /\ per_test.rows[k].failed_runs = 0
         /\ per_test.rows[k].total_runs = 1
         /\ per_test.rows[m].failed_runs = 1
         /\ per_test.rows[m].total_runs = 1
    /\ \E k, m \in 1..Len(stability_enriched.rows) :
         LET a == stability_enriched.rows[k]
             b == stability_enriched.rows[m]
         IN /\ a.row.test_name # b.row.test_name
            /\ a.row.executed_at = 1
            /\ b.row.executed_at = 0
            /\ b.row.failed
            /\ FloatEq(a.stability_7d, One)
            /\ FloatEq(b.stability_7d, Ratio(0, 1))

RecordsOf(rows, test) == {i \in 1..Len(rows) : rows[i].test_name = test}

\* C7: total_runs is the number of input records of the test, with or
\* without a run_id column and whatever the run_id values; failed_runs is the
\* number of those whose status is, case-insensitively, a failing one.
C7_TotalsCountRecords ==
    (pc = "returned" /\ per_test.status = "ok") =>
        \A k \in 1..Len(per_test.rows) :
            LET r == per_test.rows[k]
            IN /\ r.total_runs = Cardinality(RecordsOf(df, r.test_name))
               /\ r.failed_runs = Cardinality(FailedIn(df, RecordsOf(df, r.test_name)))

\* C8: every flake_rate lies in [0, 1], and is 0 when total_runs is 0.
C8_FlakeRateInUnitInterval ==
    (pc = "returned" /\ per_test.status = "ok") =>
        \A k \in 1..Len(per_test.rows) :
            LET r == per_test.rows[k]
            IN /\ FloatLeq(Ratio(0, 1), r.flake_rate)
               /\ FloatLeq(r.flake_rate, One)
               /\ r.total_runs = 0 => FloatEq(r.flake_rate, Ratio(0, 1))

\* C9: the stability_7d and stability_30d of a test's row are the window
\* values at its chronologically latest record: 1 - failed/total over the
\* test's runs in the window that ends at its latest run.
C9_StabilityAtLatestRecord ==
    (pc = "returned" /\ per_test.status = "ok") =>
        \A k \in 1..Len(per_test.rows) :
            LET r == per_test.rows[k]
                t == LatestTime(df, r.test_name)
            IN /\ FloatEq(r.stability_7d, WindowStability(df, r.test_name, t, 7))
               /\ FloatEq(r.stability_30d, WindowStability(df, r.test_name, t, 30))

\* C10: a test with no failed run in the 7 days that end at its latest run
\* is reported with stability_7d = 1.0, whatever failed before.
C10_NoRecentFailureIsStable ==
    (pc = "returned" /\ per_test.status = "ok") =>
        \A k \in 1..Len(per_test.rows) :
            LET r == per_test.rows[k]
                t == LatestTime(df, r.test_name)
            IN FailedIn(df, RunsInWindow(df, r.test_name, t, 7)) = {}
                   => FloatEq(r.stability_7d, One)

\* a rate that is a number and at least another one
RateAtLeast(a, b) == ~a.nan /\ ~b.nan /\ a.num * b.den >= b.num * a.den

\* C11: the rows compute_per_test_flake_metrics returns are in descending
\* flake_rate order: the flake_rate of every row is at least that of the row
\* after it, with and without the merged platform and team columns.
C11_SortedByDescendingFlakeRate ==
    (pc = "returned" /\ per_test.status = "ok") =>
        \A i \in 1..(Len(per_test.rows) - 1) :
            RateAtLeast(per_test.rows[i].flake_rate, per_test.rows[i + 1].flake_rate)

\* platform and team were merged in, and the sort moved the always failing
\* test tB in front of the never failing tA that the grouping puts first
C11_Witness ==
    /\ pc = "returned"
    /\ per_test.status = "ok"
    /\ {"platform", "team"} \subseteq cols
    /\ Len(per_test.rows) = 2
    /\ per_test.rows[1].test_name = "tB"
    /\ per_test.rows[1].failed_runs = 1
    /\ per_test.rows[1].total_runs = 1
    /\ per_test.rows[2].test_name = "tA"
    /\ per_test.rows[2].failed_runs = 0
    /\ per_test.rows[2].platform # None

\* C12: the result of compute_per_test_flake_metrics has exactly one row for
\* every test the input holds records of and no other row, also when the
\* platform and team columns are merged in and when several records of a
\* test share its latest timestamp.
C12_OneRowPerTest ==
    (pc = "returned" /\ per_test.status = "ok") =>
        /\ \A i \in 1..Len(df) :
             Cardinality({k \in 1..Len(per_test.rows) :
                             per_test.rows[k].test_name = df[i].test_name}) = 1
        /\ \A k \in 1..Len(per_test.rows) :
             \E i \in 1..Len(df) : df[i].test_name = per_test.rows[k].test_name

\* two records of one test share its latest timestamp, platform and team
\* are merged in, and the test has its single row
C12_Witness ==
    /\ pc = "returned"
    /\ per_test.status = "ok"
    /\ {"platform", "team"} \subseteq cols
    /\ Len(df) = 2
    /\ df[1].test_name = df[2].test_name
    /\ df[1].executed_at = df[2].executed_at
    /\ Len(per_test.rows) = 1
    /\ per_test.rows[1].total_runs = 2

FailedRecords == {i \in 1..Len(df) : df[i].failed}

\* the identifier of a record: the digest of its joined normalized metadata
RecordId(r) == Sha1Hex(Signature(r))

\* the failed records that have the key of a group
RecordsOfGroup(g) ==
    {i \in FailedRecords :
        /\ df[i].platform = g.platform
        /\ df[i].team = g.team
        /\ RecordId(df[i]) = g.root_cause_group_id}

\* C14: compute_failure_group_summaries groups the failed records by
\* (platform, team, root_cause_group_id): every returned group has as
\* failure_count the number of failed records with its key, as affected_tests
\* the number of distinct tests among them and as latest_failure_at their
\* greatest executed_at, and every failed record falls into exactly one
\* returned group (so failures of identical metadata, platform and team
\* share one group).
C14_GroupsCountTheirFailures ==
    (pc = "returned" /\ failure_groups.status = "ok") =>
        /\ \A k \in 1..Len(failure_groups.rows) :
             LET g == failure_groups.rows[k]
                 members == RecordsOfGroup(g)
             IN /\ members # {}
                /\ g.failure_count = Cardinality(members)
                /\ g.affected_tests = Cardinality({df[i].test_name : i \in members})
                /\ \E i \in members :
                     /\ g.latest_failure_at = df[i].executed_at
                     /\ \A j \in members : df[j].executed_at <= df[i].executed_at
        /\ \A i \in FailedRecords :
             Cardinality({k \in 1..Len(failure_groups.rows) :
                             i \in RecordsOfGroup(failure_groups.rows[k])}) = 1

\* C15: in every group compute_failure_group_summaries returns,
\* affected_tests is at most failure_count, and the two are equal only when
\* no two failures of the group belong to the same test.
C15_AffectedTestsAtMostFailures ==
    (pc = "returned" /\ failure_groups.status = "ok") =>
        \A k \in 1..Len(failure_groups.rows) :
            LET g == failure_groups.rows[k]
            IN /\ g.affected_tests <= g.failure_count
               /\ (g.affected_tests = g.failure_count) =>
                     \A i, j \in RecordsOfGroup(g) :
                         i # j => df[i].test_name # df[j].test_name

\* one returned group with two failures of a single test, and in the same
\* result a group with one failure
C15_Witness ==
    /\ pc = "returned"
    /\ failure_groups.status = "ok"
    /\ \E k, m \in 1..Len(failure_groups.rows) :
         /\ failure_groups.rows[k].failure_count = 2
         /\ failure_groups.rows[k].affected_tests = 1
         /\ failure_groups.rows[m].failure_count = 1
         /\ failure_groups.rows[m].affected_tests = 1

\* C16: the groups compute_failure_group_summaries returns are in descending
\* failure_count order: the failure_count of every row is at least that of
\* the row after it.
C16_SortedByDescendingFailureCount ==
    (pc = "returned" /\ failure_groups.status = "ok") =>
        \A k \in 1..(Len(failure_groups.rows) - 1) :
            failure_groups.rows[k].failure_count >= failure_groups.rows[k + 1].failure_count

\* the first failure recorded is alone in its group and two later ones share
\* another group, which comes first in the result
C16_Witness ==
    /\ pc = "returned"
    /\ failure_groups.status = "ok"
    /\ Len(df) = 3
    /\ Len(failure_groups.rows) = 2
    /\ failure_groups.rows[1].failure_count = 2
    /\ failure_groups.rows[2].failure_count = 1
    /\ RecordId(df[1]) = failure_groups.rows[2].root_cause_group_id
    /\ RecordId(df[2]) = failure_groups.rows[1].root_cause_group_id

\* C17: on an input without failed record, an input without rows included,
\* compute_failure_group_summaries and build_failure_group_runs return a
\* result that has no row and has every column they declare; they neither
\* raise nor return a frame without columns.
C17_NoFailureGivesEmptyResultWithColumns ==
    (pc = "returned" /\ FailedRecords = {}) =>
        /\ failure_groups.status # "none" =>
             /\ failure_groups.status = "ok"
             /\ failure_groups.rows = <<>>
             /\ failure_groups.columns =
                  {"platform", "team", "root_cause_group_id", "failure_count",
                   "affected_tests", "latest_failure_at"}
        /\ group_runs.status # "none" =>
             /\ group_runs.status = "ok"
             /\ group_runs.rows = <<>>
             /\ group_runs.columns =
                  {"root_cause_group_id", "test_name", "run_id", "executed_at",
                   "run_url", "log_path", "failure_reason"}

\* build_failure_group_runs returned for an input of passed records only
C17_Witness ==
    /\ pc = "returned"
    /\ Len(df) >= 1
    /\ \A i \in 1..Len(df) : ~df[i].failed
    /\ group_runs.status = "ok"
    /\ group_runs.rows = <<>>
    /\ Cardinality(group_runs.columns) = 7

\* C18: build_failure_group_runs returns one row for every failed record of
\* the input and none for another record; each row carries the
\* root_cause_group_id assign_root_cause_group_ids gives its record; the rows
\* are in non-increasing executed_at order, the most recent failure first.
C18_OneRunPerFailureNewestFirst ==
    (pc = "returned" /\ group_runs.status = "ok") =>
        /\ \E f \in [1..Len(group_runs.rows) -> FailedRecords] :
             /\ \A k, m \in DOMAIN f : f[k] = f[m] => k = m
             /\ \A i \in FailedRecords : \E k \in DOMAIN f : f[k] = i
             /\ \A k \in DOMAIN f :
                  /\ group_runs.rows[k].row = df[f[k]]
                  /\ group_runs.rows[k].root_cause_group_id =
                       assign_root_cause_group_ids(df, cols).rows[f[k]]
        /\ \A k \in 1..(Len(group_runs.rows) - 1) :
             group_runs.rows[k].row.executed_at >= group_runs.rows[k + 1].row.executed_at

\* an older failure, a passed record and a newer failure of another root
\* cause were given in this order; the newer failure is the first of two rows
C18_Witness ==
    /\ pc = "returned"
    /\ group_runs.status = "ok"
    /\ Len(df) = 3
    /\ df[1].failed /\ df[1].executed_at = 0
    /\ ~df[2].failed
    /\ df[3].failed /\ df[3].executed_at = 1
    /\ Len(group_runs.rows) = 2
    /\ group_runs.rows[1].row = df[3]
    /\ group_runs.rows[1].root_cause_group_id # group_runs.rows[2].root_cause_group_id

\* C19: under every accepted schema, whichever of the optional columns
\* run_id, run_url and log_path it has, build_failure_group_runs and
\* compute_failure_group_summaries return the same set of columns for an
\* input with failed records as for an input of the same schema without any.
C19_StableColumnSets ==
    pc = "returned" =>
        /\ group_runs.status = "ok" =>
             \A empty \in build_failure_group_runs(<<>>, cols) :
                 empty.columns = group_runs.columns
        /\ failure_groups.status = "ok" =>
             \A empty \in compute_failure_group_summaries(<<>>, cols) :
                 empty.columns = failure_groups.columns

(***************************************************************************)
(* Properties of the alerting engine                                       *)
(***************************************************************************)
\* none of the three rules triggers for an insight
NoRuleTriggers(item) ==
    /\ item.flake_rate.v < ThresholdConfig.max_flake_rate
    /\ item.wow_delta.null \/ item.wow_delta.v < ThresholdConfig.max_wow_delta
    /\ item.z_score.null \/ item.z_score.v < ThresholdConfig.max_z_score

\* C20: AlertingEngine.run calls send on no notifier when the insight
\* sequence is empty, and on none when no rule triggers for the latest
\* insight, whatever anomaly-flagged weeks the sequence holds.
C20_SilentWithoutTriggeredRule ==
    (pc \in {"returned", "raised"}
        /\ (insights = <<>> \/ NoRuleTriggers(insights[Len(insights)]))) =>
        calls = <<>>

\* run returned without a send although notifiers are registered, the
\* earlier week breached every threshold and both weeks are flagged
C20_Witness ==
    /\ pc = "returned"
    /\ Len(notifiers) = 2
    /\ Len(insights) = 2
    /\ insights[1].is_anomalous
    /\ ~NoRuleTriggers(insights[1])
    /\ insights[2].is_anomalous
    /\ NoRuleTriggers(insights[2])
    /\ calls = <<>>

\* C21: AlertingEngine.run decides on the latest insight alone: whether a
\* notification goes out, and its subject, are those of a run on the latest
\* insight by itself, whatever the earlier weeks are; with no rule triggered
\* for the latest insight nothing is sent even when an earlier week breached
\* a threshold.
C21_OnlyLatestInsightDecides ==
    (pc \in {"returned", "raised"} /\ insights # <<>> /\ notifiers # <<>>) =>
        LET latest == insights[Len(insights)]
            alone == AlertingEngineRun(notifiers, ThresholdConfig, <<latest>>)
        IN /\ (calls = <<>>) <=> (alone.calls = <<>>)
           /\ calls # <<>> => calls[1].subject = alone.calls[1].subject
           /\ NoRuleTriggers(latest) => calls = <<>>

\* the earlier week breached only the flake-rate threshold, the latest week
\* only the week-over-week one, and the notification names the latter alone
C21_Witness ==
    /\ pc = "returned"
    /\ Len(insights) = 2
    /\ insights[1].flake_rate.v >= ThresholdConfig.max_flake_rate
    /\ insights[1].wow_delta.null
    /\ insights[1].z_score.null
    /\ insights[2].flake_rate.v < ThresholdConfig.max_flake_rate
    /\ ~insights[2].wow_delta.null
    /\ insights[2].wow_delta.v >= ThresholdConfig.max_wow_delta
    /\ insights[2].z_score.null
    /\ Len(calls) >= 1
    /\ calls[1].subject = <<"Week-over-week spike">>

\* the names of the rules that trigger for an insight, in the fixed order
ExpectedNames(item) ==
    (IF item.flake_rate.v >= ThresholdConfig.max_flake_rate
     THEN <<"High flake rate">> ELSE <<>>)
    \o (IF ~item.wow_delta.null /\ item.wow_delta.v >= ThresholdConfig.max_wow_delta
        THEN <<"Week-over-week spike">> ELSE <<>>)
    \o (IF ~item.z_score.null /\ item.z_score.v >= ThresholdConfig.max_z_score
        THEN <<"Anomalous spike">> ELSE <<>>)

\* one to three names with " | " between them
ExpectedSubject(names) ==
    IF Len(names) = 1 THEN <<names[1]>>
    ELSE IF Len(names) = 2 THEN <<names[1], " | ", names[2]>>
    ELSE <<names[1], " | ", names[2], " | ", names[3]>>

\* the text of the body line of each rule
RuleLineText ==
    [n \in {"High flake rate", "Week-over-week spike", "Anomalous spike"} |->
        IF n = "High flake rate" THEN "flake rate"
        ELSE IF n = "Week-over-week spike" THEN "week-over-week delta"
        ELSE "Z-score"]

\* C22: the three rules are evaluated independently on the latest insight
\* ('High flake rate' iff flake_rate >= max_flake_rate, 'Week-over-week
\* spike' iff wow_delta is not null and >= max_wow_delta, 'Anomalous spike'
\* iff z_score is not null and >= max_z_score); a notification goes out iff
\* one of them triggers, its subject is the triggered names in this order
\* joined by ' | ', and its body has exactly one line for each triggered
\* rule and none for another rule.
C22_RulesAreAdditive ==
    (pc \in {"returned", "raised"} /\ insights # <<>> /\ notifiers # <<>>) =>
        LET names == ExpectedNames(insights[Len(insights)])
        IN /\ (calls # <<>>) <=> (names # <<>>)
           /\ calls # <<>> =>
                /\ calls[1].subject = ExpectedSubject(names)
                /\ \A n \in DOMAIN RuleLineText :
                     Cardinality({k \in 1..Len(calls[1].body) :
                                     calls[1].body[k].text = RuleLineText[n]})
                       = (IF \E i \in 1..Len(names) : names[i] = n THEN 1 ELSE 0)

\* the latest insight reaches each threshold exactly and all three rules are
\* named in the subject
C22_Witness ==
    /\ pc = "returned"
    /\ insights # <<>>
    /\ insights[Len(insights)].flake_rate.v = ThresholdConfig.max_flake_rate
    /\ insights[Len(insights)].wow_delta = Num(ThresholdConfig.max_wow_delta)
    /\ insights[Len(insights)].z_score = Num(ThresholdConfig.max_z_score)
    /\ Len(calls) >= 1
    /\ calls[1].subject = <<"High flake rate", " | ", "Week-over-week spike", " | ",
                            "Anomalous spike">>

\* C23: when a rule triggers for the latest insight, run calls send exactly
\* once on every registered notifier, in registration order, with one and
\* the same subject and body; none is skipped and none called twice.
C23_EveryNotifierCalledOnce ==
    (pc \in {"returned", "raised"} /\ insights # <<>>
        /\ ~NoRuleTriggers(insights[Len(insights)])) =>
        /\ Len(calls) = Len(notifiers)
        /\ \A k \in 1..Len(calls) :
             /\ calls[k].notifier = k
             /\ calls[k].subject = calls[1].subject
             /\ calls[k].body = calls[1].body

\* C24: a notifier whose send raises does not keep the notification from the
\* others: when a rule triggers, send is called on every registered notifier
\* whose send works, those registered after a failing one included.
C24_ChannelFailuresAreIsolated ==
    (pc \in {"returned", "raised"} /\ insights # <<>>
        /\ ~NoRuleTriggers(insights[Len(insights)])) =>
        \A k \in 1..Len(notifiers) :
            ~notifiers[k].raises => \E c \in 1..Len(calls) : calls[c].notifier = k

(***************************************************************************)
(* Properties of the ticket escalation                                     *)
(***************************************************************************)
\* a group is unresolved and at least sla_days days old at the time `at`
Qualifies(group, sla_days, at) == ~group.resolved /\ at - group.created_at >= sla_days

\* C25: a group qualifies for escalation iff it is unresolved and at least
\* sla_days days old, the boundary included.  In every ensure_jira_tickets
\* call groups_exceeding_sla returns exactly the qualifying groups in input
\* order, create_ticket is invoked and tickets are returned only for them,
\* and the jira_ticket of every other group stays as it was.
C25_OnlyQualifyingGroupsEscalate ==
    [][ensured'.call # ensured.call =>
        LET sla_days == ensured'.sla_days
            overdue == ensured'.overdue
            qualifying == {k \in 1..Len(root_cause_groups) :
                              Qualifies(root_cause_groups[k], sla_days, now)}
        IN /\ {overdue[i] : i \in 1..Len(overdue)} = qualifying
           /\ \A i \in 1..(Len(overdue) - 1) : overdue[i] < overdue[i + 1]
           /\ \A k \in 1..Len(root_cause_groups) \ qualifying :
                root_cause_groups'[k] = root_cause_groups[k]
           /\ \A i \in (Len(jira.invocations) + 1)..Len(jira'.invocations) :
                jira'.invocations[i].group \in qualifying
           /\ \A i \in 1..Len(ensured'.tickets) :
                \E k \in qualifying : ensured'.tickets[i] = root_cause_groups'[k].jira_ticket
       ]_vars

\* a completed call under an SLA of two days: the first group was exactly
\* two days old and got the ticket, the second was one day old and got none
C25_Witness ==
    /\ ensured.status = "returned"
    /\ ensured.call = 1
    /\ ensured.sla_days = 2
    /\ now = 2
    /\ Len(root_cause_groups) = 2
    /\ root_cause_groups[1] = RootCauseGroup(0, FALSE, JiraTicketMetadata(1))
    /\ root_cause_groups[2] = RootCauseGroup(1, FALSE, NoTicket)
    /\ ensured.overdue = <<1>>
    /\ ensured.tickets = <<JiraTicketMetadata(1)>>

\* C28: over any sequence of ensure_jira_tickets calls on the same groups,
\* create_ticket is invoked at most once per group.
C28_CreateTicketInvokedOncePerGroup ==
    \A i, j \in 1..Len(jira.invocations) :
        jira.invocations[i].group = jira.invocations[j].group => i = j

\* C28, amended: create_ticket is never invoked again for a group once an
\* invocation for it returned, and never for a group that had a ticket
\* before, so at most one invocation per group returns (one that raised is
\* repeated by a later call); the ticket a group carries is the one its
\* invocation created; a call that completes answers every qualifying group
\* with the ticket the group carries, and every one of them carries one.
C28_NoTicketCreatedTwice ==
    /\ \A i, j \in 1..Len(jira.invocations) :
         (i < j /\ jira.invocations[i].group = jira.invocations[j].group) =>
             jira.invocations[i].raised
    /\ \A i \in 1..Len(jira.invocations) :
         LET k == jira.invocations[i].group
             returned == {m \in 1..i : ~jira.invocations[m].raised}
         IN /\ root_cause_groups[k].jira_ticket # JiraTicketMetadata(0)
            /\ ~jira.invocations[i].raised =>
                 root_cause_groups[k].jira_ticket = JiraTicketMetadata(Cardinality(returned))
    /\ ensured.status = "returned" =>
         /\ Len(ensured.tickets) = Len(ensured.overdue)
         /\ \A i \in 1..Len(ensured.overdue) :
              /\ root_cause_groups[ensured.overdue[i]].jira_ticket.present
              /\ ensured.tickets[i] = root_cause_groups[ensured.overdue[i]].jira_ticket

\* two completed calls: the second answered both qualifying groups with the
\* tickets they carried, one created by the first call and one from before,
\* and create_ticket was invoked once in all
C28_Witness ==
    /\ ensured.status = "returned"
    /\ ensured.call = 2
    /\ Len(ensured.overdue) = 2
    /\ ensured.tickets = <<JiraTicketMetadata(1), JiraTicketMetadata(0)>>
    /\ Len(jira.invocations) = 1
    /\ jira.issued = 1

(***************************************************************************)
(* Properties of the weekly insight enrichment                             *)
(***************************************************************************)
\* no two of the samples are of the same week
DistinctWeeks(given) ==
    \A i, j \in 1..Len(given) : given[i].week_start = given[j].week_start => i = j

\* every order of the given samples has the returned insights as its only
\* result, and the insights are in the order of their weeks
SameInsightsInAnyOrder ==
    /\ \A shuffled \in Permuted(samples) : EnrichWeeklySamples(shuffled) = {insights}
    /\ \A i \in 1..(Len(insights) - 1) : insights[i].week_start <= insights[i + 1].week_start

EarlierRates(i) == [k \in 1..(i - 1) |-> insights[k].flake_rate.v]

AllEqual(values) == \A i, j \in 1..Len(values) : values[i] = values[j]

Magnitude(n) == IF n >= 0 THEN n ELSE 0 - n

\* C27: a week's z_score is null whenever fewer than 2 earlier weeks exist or
\* all earlier rates are equal, and it is the same whatever the later weeks
\* are; is_anomalous is true iff z_score is non-null and its absolute value is
\* at least the threshold 2.5; the first two weeks are never flagged and the
\* first week has a null wow_delta.
C27_ZScoreFromEarlierWeeksOnly ==
    pc = "returned" =>
        /\ \A i \in 1..Len(insights) :
             /\ (i <= 2 \/ AllEqual(EarlierRates(i))) => insights[i].z_score.null
             /\ insights[i].is_anomalous <=>
                  (~insights[i].z_score.null /\ Magnitude(insights[i].z_score.v) >= 250)
             /\ i <= 2 => ~insights[i].is_anomalous
             /\ \A ordered \in ChronologicalChoices(samples) :
                  EnrichInOrder(ordered) = insights =>
                      EnrichInOrder(SubSeq(ordered, 1, i))[i].z_score = insights[i].z_score
        /\ insights # <<>> => insights[1].wow_delta.null

\* a third week flagged at z = 3.0 after two unflagged weeks of different
\* rates
C27_Witness ==
    /\ pc = "returned"
    /\ Len(insights) = 3
    /\ insights[1].flake_rate # insights[2].flake_rate
    /\ insights[3].is_anomalous
    /\ Magnitude(insights[3].z_score.v) = 300

(***************************************************************************)
(* Properties of the grouping totals and of the stability windows          *)
(***************************************************************************)
\* C29: compute_failure_group_summaries counts every failed record in exactly
\* one group: the failure_count values of the returned groups add up to the
\* number of failed records of the input, whatever the platform, team and
\* test values are, missing ones included.
C29_FailureCountsAddUp ==
    (pc = "returned" /\ failure_groups.status = "ok") =>
        SumOf([k \in 1..Len(failure_groups.rows) |-> failure_groups.rows[k].failure_count])
            = Cardinality(FailedRecords)

\* the entries of stability_enriched that belong to one test, in their order
EnrichedOf(test) == SelectSeq(stability_enriched.rows, LAMBDA e : e.row.test_name = test)

\* a stability that is a number between 0 and 1
InUnitInterval(x) == ~x.nan /\ x.den > 0 /\ 0 <= x.num /\ x.num <= x.den

\* C30: in compute_stability_windows every window contains the run it ends
\* at, so its total is at least 1 for every row: the value of every row is
\* 1 - failed/total of its own window and never the carried-forward or
\* default value, every stability_7d and stability_30d is a number in [0, 1],
\* and the 30-day window of a row counts at least as many runs and failures
\* as its 7-day window.
C30_WindowsHoldTheirOwnRun ==
    (pc = "returned" /\ stability_enriched.status = "ok") =>
        \A test \in TestsIn(df) :
            LET entries == EnrichedOf(test)
                group == [i \in 1..Len(entries) |-> entries[i].row]
            IN \A i \in 1..Len(group) :
                 LET week == WindowRows(group, i, 7)
                     month == WindowRows(group, i, 30)
                 IN /\ i \in week /\ i \in month
                    /\ Cardinality(week) >= 1
                    /\ ~RawStability(group, i, 7).nan /\ ~RawStability(group, i, 30).nan
                    /\ entries[i].stability_7d = RawStability(group, i, 7)
                    /\ entries[i].stability_30d = RawStability(group, i, 30)
                    /\ InUnitInterval(entries[i].stability_7d)
                    /\ InUnitInterval(entries[i].stability_30d)
                    /\ Cardinality(month) >= Cardinality(week)
                    /\ Cardinality({j \in month : group[j].failed})
                         >= Cardinality({j \in week : group[j].failed})

\* a failed run and, eight days later, a passed run of the same test: the
\* 7-day window of the second holds that run alone, the 30-day window both
C30_Witness ==
    /\ pc = "returned"
    /\ stability_enriched.status = "ok"
    /\ Len(stability_enriched.rows) = 2
    /\ stability_enriched.rows[1].row.test_name = stability_enriched.rows[2].row.test_name
    /\ stability_enriched.rows[1].row.failed
    /\ stability_enriched.rows[2].row.executed_at = stability_enriched.rows[1].row.executed_at + 8
    /\ stability_enriched.rows[2].stability_7d = One
    /\ stability_enriched.rows[2].stability_30d = Ratio(1, 2)

====
